---- MODULE Spec2Model ----
(***************************************************************************)
(* The Maestro servo controller of spider/maestro_controller.py: the       *)
(* command codec of the two daisy-chained devices, the synchronized move,  *)
(* and the animation sequencer (animation / animate) with its settle poll. *)
(***************************************************************************)
EXTENDS Integers, Sequences, FiniteSets, TLC

VARIABLES
    animating,          \* self.animating
    current_position,   \* self.current_position (a pose name)
    top,                \* the method the caller invoked: "none" when no call runs
    pc,                 \* the place the running call has reached
    anim,               \* animation(): animation_name
    i,                  \* animation(): the loop index i
    step,               \* animate(): its arguments <<script_name, animation_times>>
    mt_i,               \* move_to(): the loop index i
    args,               \* set_position_multiple(): its arguments
    outq,               \* set_position_multiple(): commands built and not yet written
    wire,               \* commands written to self.serial since the running pose
                        \* step (or direct link call) began, oldest first; of
                        \* the settle loop's queries, all equal, the first
                        \* MaxPolls + 1 are kept
    polls,              \* animate(): completed passes of the settle loop,
                        \* counted up to MaxPolls + 1
    polled,             \* animate(): the local current_position, <<>> for None
    flushed,            \* get_position(): flushInput() was called by the last query
    slept,              \* milliseconds passed to time.sleep since the step began
    entry_position,     \* self.current_position when the caller's call began
    call,               \* the arguments of a direct call of a link method or function
    ret,                \* the value that call returned, <<>> for None or none yet
    rx,                 \* the strings the serial reads of the latest get_position
                        \* or get_servos_moving query of that call returned
    moving              \* the devices that have a channel still moving

vars == <<animating, current_position, top, pc, anim, i, step, mt_i, args, outq,
          wire, polls, polled, flushed, slept, entry_position,
          call, ret, rx, moving>>

\* the variables only the direct calls of the link use
linkvars == <<call, ret, rx, moving>>

----------------------------------------------------------------------------
(* Bounds of the model. *)

\* The settle loop of animate() runs for any number of passes. Its first
\* MaxPolls + 1 passes are counted in polls and their queries recorded on
\* wire; every later pass repeats the last of them, with polls and wire left
\* as they are.
MaxPolls == 4

\* Direct calls of set_position_multiple take first_servo in 0..MaxFirstServo
\* and 0..MaxTargets pulse widths.
MaxFirstServo == 25
MaxTargets == 25

\* Direct calls of time_to_speed_accel take a time in 1..MaxAnimTime, or a
\* time of the predefined animations, and a distance in 0..MaxDistance.
MaxAnimTime == 32
MaxDistance == 1600

----------------------------------------------------------------------------
(* Program constants. *)

NumServos == 24
ServosPerDevice == 12
MinPulseWidth == 736
MaxPulseWidth == 2272
SettleTolerance == 20
SettleSleepMs == 100
PauseExtraMs == 100

PoseNames ==
    {"park", "extend", "extend_half", "jugendstil", "jugendstil_half",
     "challenge", "point", "knife", "push_away", "wiggle_up", "wiggle_down"}

\* setup_positions: self.positions[name].legs
positions(name) ==
    CASE name = "park" ->
        <<<<1370, 1750, 1560, 2230>>,
          <<1030, 1980, 1500, 1500>>,
          <<1580, 1780, 880, 736>>,
          <<1450, 1100, 1330, 780>>,
          <<1770, 890, 1500, 1500>>,
          <<1340, 1970, 1870, 1990>>>>
      [] name = "extend" ->
        <<<<1370, 1750, 1020, 1570>>,
          <<1710, 1500, 1500, 1500>>,
          <<1580, 1780, 1420, 1410>>,
          <<1460, 980, 1890, 1360>>,
          <<1130, 1410, 1500, 1500>>,
          <<1360, 1890, 1210, 1210>>>>
      [] name = "extend_half" ->
        <<<<1370, 1760, 1330, 1790>>,
          <<1210, 1760, 1500, 1500>>,
          <<1580, 1810, 1020, 1210>>,
          <<1450, 1080, 1560, 1200>>,
          <<1610, 1100, 1500, 1500>>,
          <<1340, 1970, 1700, 1610>>>>
      [] name = "jugendstil" ->
        <<<<1510, 1990, 1270, 1590>>,
          <<1250, 1480, 1500, 1500>>,
          <<1640, 1900, 1020, 1590>>,
          <<1250, 900, 1530, 1270>>,
          <<1560, 1460, 1500, 1500>>,
          <<1350, 1920, 1630, 1090>>>>
      [] name = "jugendstil_half" ->
        <<<<1370, 1750, 1560, 2230>>,
          <<1250, 1480, 1500, 1500>>,
          <<1640, 1900, 1020, 1590>>,
          <<1450, 1100, 1330, 780>>,
          <<1560, 1460, 1500, 1500>>,
          <<1350, 1920, 1630, 1090>>>>
      [] name = "challenge" ->
        <<<<1500, 1860, 1410, 1910>>,
          <<1130, 1610, 1500, 1500>>,
          <<1640, 1900, 1020, 1600>>,
          <<1340, 970, 1450, 1020>>,
          <<1610, 1300, 1500, 1500>>,
          <<1350, 1910, 1650, 1100>>>>
      [] name = "point" ->
        <<<<1240, 1590, 1020, 770>>,
          <<1190, 1180, 1500, 1500>>,
          <<1640, 1900, 910, 1700>>,
          <<1530, 1190, 1810, 2040>>,
          <<1580, 1730, 1500, 1500>>,
          <<1350, 1860, 1710, 1020>>>>
      [] name = "knife" ->
        <<<<1370, 1750, 1560, 2230>>,
          <<1650, 1400, 1500, 1500>>,
          <<1580, 1780, 880, 736>>,
          <<1450, 1100, 1330, 780>>,
          <<1150, 1500, 1500, 1500>>,
          <<1340, 1970, 1870, 1990>>>>
      [] name = "push_away" ->
        <<<<1210, 1970, 1240, 1580>>,
          <<1030, 1980, 1500, 1500>>,
          <<1580, 1780, 880, 736>>,
          <<1640, 910, 1670, 1360>>,
          <<1820, 880, 1500, 1500>>,
          <<1340, 1970, 1870, 1990>>>>
      [] name = "wiggle_up" ->
        <<<<1370, 1750, 1400, 1520>>,
          <<1270, 1430, 1500, 1500>>,
          <<1580, 1780, 1070, 1640>>,
          <<1450, 1050, 1500, 1470>>,
          <<1500, 1510, 1500, 1500>>,
          <<1340, 1970, 1590, 1100>>>>
      [] name = "wiggle_down" ->
        <<<<1370, 1750, 1400, 1610>>,
          <<1270, 1340, 1500, 1500>>,
          <<1580, 1780, 1070, 1560>>,
          <<1450, 1050, 1500, 1390>>,
          <<1500, 1600, 1500, 1500>>,
          <<1340, 1970, 1590, 1190>>>>

Six(t) == <<t, t, t, t, t, t>>

AnimationNames ==
    {"park", "extend", "breathe", "knife", "attack", "point", "jugendstil",
     "challenge", "wiggle", "dance"}

\* setup_animations: self.animations[name]; a pause step carries <<milliseconds>>
animations(name) ==
    CASE name = "park" -> << <<"park", Six(1500)>> >>
      [] name = "extend" -> << <<"extend", Six(1500)>> >>
      [] name = "breathe" ->
            << <<"extend", Six(1500)>>, <<"park", Six(1500)>>,
               <<"extend_half", Six(1500)>>, <<"park", Six(1500)>> >>
      [] name = "knife" ->
            << <<"knife", Six(600)>>, <<"pause", <<500>> >>, <<"park", Six(1000)>> >>
      [] name = "attack" -> << <<"extend", Six(750)>>, <<"park", Six(1500)>> >>
      [] name = "point" -> << <<"point", Six(1500)>>, <<"park", Six(1500)>> >>
      [] name = "jugendstil" ->
            << <<"jugendstil_half", Six(1500)>>, <<"pause", <<750>> >>,
               <<"jugendstil", Six(1500)>>, <<"pause", <<900>> >>,
               <<"park", Six(1500)>> >>
      [] name = "challenge" ->
            << <<"challenge", Six(1500)>>, <<"pause", <<1000>> >>,
               <<"park", Six(1500)>> >>
      [] name = "wiggle" ->
            << <<"wiggle_up", Six(750)>>, <<"wiggle_down", Six(100)>>,
               <<"wiggle_up", Six(100)>>, <<"wiggle_down", Six(100)>>,
               <<"wiggle_up", Six(100)>>, <<"park", Six(750)>> >>
      [] name = "dance" -> << >>

----------------------------------------------------------------------------
(* Helpers: Python slices, abs, min, and the bit operations on naturals. *)

Abs(x) == IF x < 0 THEN -x ELSE x

Min2(a, b) == IF a < b THEN a ELSE b

\* s[:k] for 0 <= k
SliceTo(s, k) == SubSeq(s, 1, Min2(k, Len(s)))

\* s[k:] for 0 <= k
SliceFrom(s, k) == SubSeq(s, Min2(k, Len(s)) + 1, Len(s))

RECURSIVE Flatten(_)
Flatten(ss) == IF ss = <<>> THEN <<>> ELSE Head(ss) \o Flatten(Tail(ss))

----------------------------------------------------------------------------
(* ServoPositions *)

\* ServoPositions.__sub__: per servo |a - b|, leg by leg
PositionsSub(a, b) ==
    [l \in 1..6 |-> [s \in 1..4 |-> Abs(a[l][s] - b[l][s])]]

\* position.legs[i/4][i%4] for a channel i in 0..23
LegValue(legs, ch) == legs[(ch \div 4) + 1][(ch % 4) + 1]

----------------------------------------------------------------------------
(* time_to_speed_accel(anim_time, distance, 0), lines 405-416, in IEEE 754   *)
(* double arithmetic.  A positive double is [m |-> digits, e |-> exponent]:  *)
(* digits is a natural number below 2^54 written in base 256, most           *)
(* significant digit first, and the value is digits * 2^e.                   *)

RECURSIVE IntToDigits(_)
IntToDigits(n) ==
    IF n = 0 THEN <<>> ELSE Append(IntToDigits(n \div 256), n % 256)

RECURSIVE DigitsToInt(_)
DigitsToInt(ds) ==
    IF ds = <<>> THEN 0
    ELSE 256 * DigitsToInt(SubSeq(ds, 1, Len(ds) - 1)) + ds[Len(ds)]

\* ds without its leading zeros
RECURSIVE Strip(_)
Strip(ds) == IF ds # <<>> /\ ds[1] = 0 THEN Strip(Tail(ds)) ELSE ds

\* ds * k + carry
RECURSIVE MulDigits(_, _, _)
MulDigits(ds, k, carry) ==
    IF ds = <<>> THEN IntToDigits(carry)
    ELSE LET v == ds[Len(ds)] * k + carry
         IN  Append(MulDigits(SubSeq(ds, 1, Len(ds) - 1), k, v \div 256),
                    v % 256)

\* ds plus a at the digit of index idx, carrying to the left
RECURSIVE AddAt(_, _, _)
AddAt(ds, idx, a) ==
    IF a = 0 THEN ds
    ELSE IF idx = 0 THEN <<a>> \o ds
    ELSE LET v == ds[idx] + a
         IN  AddAt([ds EXCEPT ![idx] = v % 256], idx - 1, v \div 256)

\* <<quotient, remainder>> of (rem, ds) by k, for 0 < k <= 256
RECURSIVE DivSmall(_, _, _)
DivSmall(ds, k, rem) ==
    IF ds = <<>> THEN << <<>>, rem >>
    ELSE LET v == rem * 256 + ds[1]
             r == DivSmall(Tail(ds), k, v % k)
         IN  << <<v \div k>> \o r[1], r[2] >>

RECURSIVE BitLenInt(_)
BitLenInt(n) == IF n = 0 THEN 0 ELSE 1 + BitLenInt(n \div 2)

\* the number of bits of ds
BitLen(ds) ==
    LET s == Strip(ds)
    IN  IF s = <<>> THEN 0 ELSE 8 * (Len(s) - 1) + BitLenInt(s[1])

\* << ds div 2^s, whether a nonzero bit was shifted out >>
ShiftRight(ds, s) ==
    LET q == s \div 8
        kept == IF q < Len(ds) THEN SubSeq(ds, 1, Len(ds) - q) ELSE <<>>
        dropped == IF q < Len(ds) THEN SubSeq(ds, Len(ds) - q + 1, Len(ds))
                   ELSE ds
        d == DivSmall(kept, 2 ^ (s % 8), 0)
    IN  << Strip(d[1]),
           d[2] # 0 \/ \E j \in 1..Len(dropped) : dropped[j] # 0 >>

\* round ds * 2^e to 53 bits, to nearest, ties to even; sticky tells that
\* the exact value has nonzero bits beyond the last of ds
FRound(ds, e, sticky) ==
    IF BitLen(ds) <= 53 THEN [m |-> Strip(ds), e |-> e]
    ELSE LET s == BitLen(ds) - 53
             h == ShiftRight(ds, s - 1)
             guard == h[1][Len(h[1])] % 2
             keep == Strip(DivSmall(h[1], 2, 0)[1])
             up == guard = 1 /\ (sticky \/ h[2] \/ keep[Len(keep)] % 2 = 1)
         IN  [m |-> IF up THEN AddAt(keep, Len(keep), 1) ELSE keep, e |-> e + s]

\* the digits of rem / den after the point, appended to acc until it has 8
\* significant digits: <<digits, number of fraction digits, remainder>>
RECURSIVE DivDigits(_, _, _, _)
DivDigits(rem, den, acc, f) ==
    IF Len(acc) >= 8 THEN <<acc, f, rem>>
    ELSE LET v == 256 * rem
         IN  DivDigits(v % den, den,
                       IF acc = <<>> /\ v \div den = 0
                       THEN acc ELSE Append(acc, v \div den),
                       f + 1)

\* the double nearest to num / den, for integers num > 0 and 0 < den < 2^23
FDiv(num, den) ==
    LET r == DivDigits(num % den, den, IntToDigits(num \div den), 0)
    IN  FRound(r[1], -8 * r[2], r[3] # 0)

\* x * k for an integer 0 < k < 2^22
FMul(x, k) == FRound(MulDigits(x.m, k, 0), x.e, FALSE)

\* x * 2^s
FScale(x, s) == [m |-> x.m, e |-> x.e + s]

\* x + 0.5, for x below 2^52
FAddHalf(x) ==
    LET p == -1 - x.e
        q == p \div 8
    IN  IF q >= Len(x.m)
        THEN FRound(<<2 ^ (p % 8)>> \o [k \in 1..(q - Len(x.m)) |-> 0] \o x.m,
                    x.e, FALSE)
        ELSE FRound(AddAt(x.m, Len(x.m) - q, 2 ^ (p % 8)), x.e, FALSE)

\* int(x), for x below 2^31
FFloor(x) == DigitsToInt(ShiftRight(x.m, -x.e)[1])

\* lines 405-409 with initial_velocity = 0: half_time = t/2, half_distance =
\* d/2 and half_time**2 are exact, so accel is the double nearest to
\* d / (t*t/4), and max_speed the double nearest to accel * (t/2)
float_accel(anim_time, distance) == FDiv(4 * distance, anim_time * anim_time)

float_max_speed(anim_time, distance) ==
    FScale(FMul(float_accel(anim_time, distance), anim_time), -1)

\* line 411: accel * 10 * 80 / 0.25 + 0.5
float_accel_scaled(anim_time, distance) ==
    FAddHalf(FScale(FMul(FMul(float_accel(anim_time, distance), 10), 80), 2))

\* line 412: max_speed * 10 / 0.25 + 0.5
float_max_speed_scaled(anim_time, distance) ==
    FAddHalf(FScale(FMul(float_max_speed(anim_time, distance), 10), 2))

\* line 416, int(max(max_speed, 1)).  The real value of line 412 is
\* (160 d + t) / 2t.  When that is not an integer it lies at least 1/2t from
\* one, far more than the rounding of the four operations can move it, and
\* the code returns its floor; when it is an integer n the double arithmetic
\* decides between n and n - 1 (time_to_speed_accel(160, 47, 0) is (23, 23)).
SpeedOf(anim_time, distance) ==
    LET num == 160 * distance + anim_time
        den == 2 * anim_time
        x == IF distance > 0 /\ num % den = 0
             THEN FFloor(float_max_speed_scaled(anim_time, distance))
             ELSE num \div den
    IN  IF x < 1 THEN 1 ELSE x

\* an acceleration without the minimum of line 416
AccelOf_NoMinimum(anim_time, distance) ==
    (25600 * distance + anim_time * anim_time) \div (2 * anim_time * anim_time)

\* line 416, int(max(accel, 1)); the real value of line 411 is
\* (25600 d + t^2) / 2t^2
AccelOf(anim_time, distance) ==
    LET num == 25600 * distance + anim_time * anim_time
        den == 2 * anim_time * anim_time
        x == IF distance > 0 /\ num % den = 0
             THEN FFloor(float_accel_scaled(anim_time, distance))
             ELSE num \div den
    IN  IF x < 1 THEN 1 ELSE x

time_to_speed_accel(anim_time, distance) ==
    <<SpeedOf(anim_time, distance), AccelOf(anim_time, distance)>>

----------------------------------------------------------------------------
(* The command codec.  A command is the sequence of the bytes of the string *)
(* handed to self.serial.write.                                             *)

SyncByte == 170
PrimaryDevice == 12
SecondaryDevice == 13
OpSetSpeed == 7
OpSetAccel == 9
OpGetPosition == 16
OpGetMovingState == 19
OpGoHome == 34
OpSetMultiple == 31

\* a channel byte that keeps the logical servo number
ChannelOf_NoOffset(servo) == servo % 128

\* set_speed / set_accel: device and channel of a logical servo
DeviceOf(servo) == IF servo > 11 THEN SecondaryDevice ELSE PrimaryDevice
ChannelOf(servo) == (IF servo > 11 THEN servo - ServosPerDevice ELSE servo) % 128

set_speed_cmd(servo, speed) ==
    <<SyncByte, DeviceOf(servo) % 256, OpSetSpeed, ChannelOf(servo),
      speed % 256, (speed \div 256) % 256>>

set_accel_cmd(servo, accel) ==
    <<SyncByte, DeviceOf(servo) % 256, OpSetAccel, ChannelOf(servo),
      accel % 256, (accel \div 256) % 256>>

\* get_position: the query written for a logical servo
get_position_cmd(servo) ==
    <<SyncByte,
      IF servo < ServosPerDevice THEN PrimaryDevice ELSE SecondaryDevice,
      OpGetPosition,
      (IF servo < ServosPerDevice THEN servo ELSE servo - ServosPerDevice) % 128>>

\* a get_position that takes a missing second byte for 0
get_position_result_ShortRead(byte1, byte2) ==
    IF Len(byte1) < 1
    THEN <<>>
    ELSE << (byte1[1] + 256 * (IF Len(byte2) < 1 THEN 0 ELSE byte2[1])) \div 4 >>

\* get_position: the value returned for the two reads; a read that timed out
\* is the empty string <<>>, a byte that arrived is <<b>>; None is <<>>
get_position_result(byte1, byte2) ==
    IF Len(byte1) < 1 \/ Len(byte2) < 1
    THEN <<>>
    ELSE << (byte1[1] + 256 * byte2[1]) \div 4 >>

get_position_flushes(byte1, byte2) == Len(byte1) < 1 \/ Len(byte2) < 1

----------------------------------------------------------------------------
(* set_position_multiple(first_servo, *pulse_widths) *)

\* line 223: the range check
TooManyTargets(first_servo, pulse_widths) ==
    first_servo + Len(pulse_widths) > NumServos

\* lines 230-234: device, and first_servo made local to the device
spm_device(first_servo) ==
    IF first_servo < ServosPerDevice THEN PrimaryDevice ELSE SecondaryDevice

spm_first(first_servo) ==
    IF first_servo < ServosPerDevice THEN first_servo
    ELSE first_servo - ServosPerDevice

\* lines 236-241
both_devices(first_servo, pulse_widths) ==
    /\ spm_device(first_servo) = PrimaryDevice
    /\ spm_first(first_servo) + Len(pulse_widths) > 11

targets1(first_servo, pulse_widths) ==
    IF both_devices(first_servo, pulse_widths)
    THEN ServosPerDevice - spm_first(first_servo)
    ELSE Len(pulse_widths)

targets2(first_servo, pulse_widths) ==
    Len(pulse_widths) - targets1(first_servo, pulse_widths)

\* lines 246, 265: the pulse width check
PulseWidthOk(pulse_width) ==
    ~(pulse_width < MinPulseWidth \/ pulse_width > MaxPulseWidth)

AllPulseWidthsOk(pws) == \A k \in 1..Len(pws) : PulseWidthOk(pws[k])

\* target bytes of 8 bits each
TargetBytes_EightBit(pulse_width) ==
    << (pulse_width * 4) % 256, ((pulse_width * 4) \div 256) % 256 >>

\* lines 250-255: pulse_width * 4 as two 7-bit bytes, low first
TargetBytes(pulse_width) ==
    << (pulse_width * 4) % 128, ((pulse_width * 4) \div 128) % 128 >>

target_bits(pws) == Flatten([k \in 1..Len(pws) |-> TargetBytes(pws[k])])

\* the two slices of lines 245 and 264
PrimaryPart(first_servo, pulse_widths) ==
    SliceTo(pulse_widths, ServosPerDevice - spm_first(first_servo))

SecondaryPart(first_servo, pulse_widths) ==
    SliceFrom(pulse_widths, ServosPerDevice - spm_first(first_servo))

\* line 257-259: cmd
spm_cmd(first_servo, pulse_widths) ==
    << SyncByte, spm_device(first_servo) % 256, OpSetMultiple,
       targets1(first_servo, pulse_widths) % 256,
       spm_first(first_servo) % 128 >>
    \o target_bits(PrimaryPart(first_servo, pulse_widths))

\* line 276-278: cmd2
spm_cmd2(first_servo, pulse_widths) ==
    << SyncByte, SecondaryDevice, OpSetMultiple,
       targets2(first_servo, pulse_widths) % 256, 0 >>
    \o target_bits(SecondaryPart(first_servo, pulse_widths))

\* set_position_multiple() without the check of line 265
set_position_multiple_writes_NoSecondCheck(first_servo, pulse_widths) ==
    IF TooManyTargets(first_servo, pulse_widths) THEN <<>>
    ELSE IF ~AllPulseWidthsOk(PrimaryPart(first_servo, pulse_widths)) THEN <<>>
    ELSE IF both_devices(first_servo, pulse_widths)
         THEN << spm_cmd2(first_servo, pulse_widths),
                 spm_cmd(first_servo, pulse_widths) >>
         ELSE << spm_cmd(first_servo, pulse_widths) >>

\* set_position_multiple() with the writes of lines 279 and 281 exchanged
set_position_multiple_writes_PrimaryFirst(first_servo, pulse_widths) ==
    IF TooManyTargets(first_servo, pulse_widths) THEN <<>>
    ELSE IF ~AllPulseWidthsOk(PrimaryPart(first_servo, pulse_widths)) THEN <<>>
    ELSE IF both_devices(first_servo, pulse_widths)
         THEN IF ~AllPulseWidthsOk(SecondaryPart(first_servo, pulse_widths))
              THEN <<>>
              ELSE << spm_cmd(first_servo, pulse_widths),
                      spm_cmd2(first_servo, pulse_widths) >>
         ELSE << spm_cmd(first_servo, pulse_widths) >>

\* The commands the call writes, in the order of its serial.write calls
\* (lines 279, 281); none when a check returns early (lines 225, 248, 267).
set_position_multiple_writes(first_servo, pulse_widths) ==
    IF TooManyTargets(first_servo, pulse_widths) THEN <<>>
    ELSE IF ~AllPulseWidthsOk(PrimaryPart(first_servo, pulse_widths)) THEN <<>>
    ELSE IF both_devices(first_servo, pulse_widths)
         THEN IF ~AllPulseWidthsOk(SecondaryPart(first_servo, pulse_widths))
              THEN <<>>
              ELSE << spm_cmd2(first_servo, pulse_widths),
                      spm_cmd(first_servo, pulse_widths) >>
         ELSE << spm_cmd(first_servo, pulse_widths) >>

----------------------------------------------------------------------------
(* animate(script_name, animation_times): the values computed before the   *)
(* move (lines 169-180, 187).                                               *)

\* line 169
difference_final(cur, target) == PositionsSub(positions(cur), positions(target))

\* lines 172-174: one (speed, accel) per servo, leg by leg
speed_accel(cur, target, animation_times) ==
    [k \in 1..NumServos |->
        time_to_speed_accel(animation_times[((k - 1) \div 4) + 1],
                            LegValue(difference_final(cur, target), k - 1))]

\* lines 170, 175-179: the scan for the largest difference; it visits
\* range(3) x range(4) in order and replaces the maximum on a strict <
ScanLegs == 3

RECURSIVE MaxScan(_, _, _, _)
MaxScan(diff, k, max_value, max_index) ==
    IF k >= ScanLegs * 4 THEN max_index
    ELSE IF max_value < LegValue(diff, k)
         THEN MaxScan(diff, k + 1, LegValue(diff, k), k)
         ELSE MaxScan(diff, k + 1, max_value, max_index)

\* line 180: index = max_index[0]*4 + max_index[1]
poll_index(cur, target) ==
    MaxScan(difference_final(cur, target), 0,
            LegValue(difference_final(cur, target), 0), 0)

\* line 187: max_value = self.positions[script_name].legs[max_index]
poll_target(cur, target) ==
    LegValue(positions(target), poll_index(cur, target))

\* line 207: pulse_widths
pulse_widths_of(position) == [k \in 1..NumServos |-> LegValue(position, k - 1)]

\* line 190: the settle test on the value get_position returned
Settled(result, max_value) ==
    result = <<>> \/ Abs(result[1] - max_value) <= SettleTolerance

\* line 164: time.sleep((animation_times+100)/1000), an integer division
\* (Python 2) giving whole seconds; in milliseconds
pause_sleep_ms(animation_times) ==
    ((animation_times + PauseExtraMs) \div 1000) * 1000

----------------------------------------------------------------------------
(* The state machine.  A caller invokes one method at a time (the program  *)
(* is single-threaded); the method runs step by step, one serial write or  *)
(* read per step, and ends at pc = "returned" or, when the transport       *)
(* raised, at pc = "raised".                                                *)

NoStep == <<"", <<>> >>
NoArgs == [first_servo |-> 0, pulse_widths |-> <<>>]

\* Inputs of the direct calls
AnimateTimes == {Six(1), Six(100), Six(160), Six(1500)}
PauseTimes == {<<0>>, <<500>>, <<900>>}

\* The state after MaestroController() returned
Init ==
    /\ animating = FALSE
    /\ current_position = "park"
    /\ top = "none"
    /\ pc = "idle"
    /\ anim = ""
    /\ i = 0
    /\ step = NoStep
    /\ mt_i = 0
    /\ args = NoArgs
    /\ outq = <<>>
    /\ wire = <<>>
    /\ polls = 0
    /\ polled = <<>>
    /\ flushed = FALSE
    /\ slept = 0
    /\ entry_position = "park"
    /\ call = <<>>
    /\ ret = <<>>
    /\ rx = <<>>
    /\ moving = {}

\* animation() without the test of line 144
CallAnimation_NoGuard(animation_name) ==
    /\ pc = "idle"
    /\ top' = "animation"
    /\ entry_position' = current_position
    /\ anim' = animation_name
    /\ animating' = TRUE
    /\ i' = 0
    /\ pc' = "anim_loop"
    /\ UNCHANGED <<current_position, step, mt_i, args, outq, wire, polls,
                   polled, flushed, slept>>
    /\ UNCHANGED linkvars

\* animation(animation_name), lines 144-151
CallAnimation(animation_name) ==
    /\ pc = "idle"
    /\ top' = "animation"
    /\ entry_position' = current_position
    /\ anim' = animation_name
    /\ IF animating
       THEN /\ pc' = "returned"
            /\ UNCHANGED <<animating, i>>
       ELSE /\ animating' = TRUE
            /\ i' = 0
            /\ pc' = "anim_loop"
    /\ UNCHANGED <<current_position, step, mt_i, args, outq, wire, polls,
                   polled, flushed, slept>>
    /\ UNCHANGED linkvars

\* animation() with the loop of line 152 ending one step early
AnimationLoop_StopsEarly ==
    /\ pc = "anim_loop"
    /\ IF i < Len(animations(anim)) - 1
       THEN /\ step' = animations(anim)[i + 1]
            /\ pc' = "animate"
            /\ UNCHANGED animating
       ELSE /\ animating' = FALSE
            /\ pc' = "returned"
            /\ UNCHANGED step
    /\ UNCHANGED <<current_position, top, anim, i, mt_i, args, outq, wire,
                   polls, polled, flushed, slept, entry_position>>
    /\ UNCHANGED linkvars

\* animation(), lines 152-155: the loop test, the call of animate, the exit
AnimationLoop ==
    /\ pc = "anim_loop"
    /\ IF i < Len(animations(anim))
       THEN /\ step' = animations(anim)[i + 1]
            /\ pc' = "animate"
            /\ UNCHANGED animating
       ELSE /\ animating' = FALSE
            /\ pc' = "returned"
            /\ UNCHANGED step
    /\ UNCHANGED <<current_position, top, anim, i, mt_i, args, outq, wire,
                   polls, polled, flushed, slept, entry_position>>
    /\ UNCHANGED linkvars

\* a direct call animate(script_name, animation_times)
CallAnimate(script_name, animation_times) ==
    /\ pc = "idle"
    /\ top' = "animate"
    /\ entry_position' = current_position
    /\ step' = <<script_name, animation_times>>
    /\ pc' = "animate"
    /\ UNCHANGED <<animating, current_position, anim, i, mt_i, args, outq,
                   wire, polls, polled, flushed, slept>>
    /\ UNCHANGED linkvars

\* animate() with a test of self.animating before the pose step
AnimateEnter_Guarded ==
    /\ pc = "animate"
    /\ wire' = <<>>
    /\ polls' = 0
    /\ polled' = <<>>
    /\ flushed' = FALSE
    /\ mt_i' = 0
    /\ IF step[1] = "pause" \/ animating
       THEN /\ slept' = IF step[1] = "pause" THEN pause_sleep_ms(step[2][1]) ELSE 0
            /\ IF top = "animation"
               THEN pc' = "anim_loop" /\ i' = i + 1
               ELSE pc' = "returned" /\ i' = i
       ELSE /\ slept' = 0
            /\ pc' = "mt_speed"
            /\ i' = i
    /\ UNCHANGED <<animating, current_position, top, anim, step, args, outq,
                   entry_position>>
    /\ call' = IF step[1] = "pause" THEN <<>>
               ELSE << positions(step[1]),
                       speed_accel(current_position, step[1], step[2]) >>
    /\ UNCHANGED <<ret, rx, moving>>

\* animate() with line 193 moved before the move
AnimateEnter_AssignEarly ==
    /\ pc = "animate"
    /\ wire' = <<>>
    /\ polls' = 0
    /\ polled' = <<>>
    /\ flushed' = FALSE
    /\ mt_i' = 0
    /\ IF step[1] = "pause"
       THEN /\ slept' = pause_sleep_ms(step[2][1])
            /\ current_position' = current_position
            /\ IF top = "animation"
               THEN pc' = "anim_loop" /\ i' = i + 1
               ELSE pc' = "returned" /\ i' = i
       ELSE /\ slept' = 0
            /\ current_position' = step[1]
            /\ pc' = "mt_speed"
            /\ i' = i
    /\ UNCHANGED <<animating, top, anim, step, args, outq, entry_position>>
    /\ call' = IF step[1] = "pause" THEN <<>>
               ELSE << positions(step[1]),
                       speed_accel(current_position, step[1], step[2]) >>
    /\ UNCHANGED <<ret, rx, moving>>

\* animate(), lines 162-183: a pause sleeps and returns; a pose step computes
\* speed_accel and the index to poll and calls move_to(position, speed_accel),
\* whose arguments are held in call
AnimateEnter ==
    /\ pc = "animate"
    /\ wire' = <<>>
    /\ polls' = 0
    /\ polled' = <<>>
    /\ flushed' = FALSE
    /\ mt_i' = 0
    /\ IF step[1] = "pause"
       THEN /\ slept' = pause_sleep_ms(step[2][1])
            /\ IF top = "animation"
               THEN pc' = "anim_loop" /\ i' = i + 1
               ELSE pc' = "returned" /\ i' = i
       ELSE /\ slept' = 0
            /\ pc' = "mt_speed"
            /\ i' = i
    /\ UNCHANGED <<animating, current_position, top, anim, step, args, outq,
                   entry_position>>
    /\ call' = IF step[1] = "pause" THEN <<>>
               ELSE << positions(step[1]),
                       speed_accel(current_position, step[1], step[2]) >>
    /\ UNCHANGED <<ret, rx, moving>>

\* move_to(), line 205: set_speed(i, speed_accel[i][0])
MoveToSetSpeed ==
    /\ pc = "mt_speed"
    /\ wire' = Append(wire,
                 set_speed_cmd(mt_i,
                               call[2][mt_i + 1][1]))
    /\ pc' = "mt_accel"
    /\ UNCHANGED <<animating, current_position, top, anim, i, step, mt_i, args,
                   outq, polls, polled, flushed, slept, entry_position>>
    /\ UNCHANGED linkvars

\* move_to() with the loop of line 204 one channel short
MoveToSetAccel_ShortLoop ==
    /\ pc = "mt_accel"
    /\ wire' = Append(wire,
                 set_accel_cmd(mt_i,
                               call[2][mt_i + 1][2]))
    /\ mt_i' = mt_i + 1
    /\ pc' = IF mt_i + 1 < NumServos - 1 THEN "mt_speed" ELSE "mt_targets"
    /\ UNCHANGED <<animating, current_position, top, anim, i, step, args, outq,
                   polls, polled, flushed, slept, entry_position>>
    /\ UNCHANGED linkvars

\* move_to(), lines 206-208: set_accel(i, speed_accel[i][1]); i += 1
MoveToSetAccel ==
    /\ pc = "mt_accel"
    /\ wire' = Append(wire,
                 set_accel_cmd(mt_i,
                               call[2][mt_i + 1][2]))
    /\ mt_i' = mt_i + 1
    /\ pc' = IF mt_i + 1 < NumServos THEN "mt_speed" ELSE "mt_targets"
    /\ UNCHANGED <<animating, current_position, top, anim, i, step, args, outq,
                   polls, polled, flushed, slept, entry_position>>
    /\ UNCHANGED linkvars

\* move_to(), line 210: set_position_multiple(0, *pulse_widths), up to its
\* first serial write
MoveToTargets ==
    /\ pc = "mt_targets"
    /\ args' = [first_servo |-> 0,
                pulse_widths |-> pulse_widths_of(call[1])]
    /\ outq' = set_position_multiple_writes(args'.first_servo, args'.pulse_widths)
    /\ pc' = "spm"
    /\ UNCHANGED <<animating, current_position, top, anim, i, step, mt_i, wire,
                   polls, polled, flushed, slept, entry_position>>
    /\ UNCHANGED linkvars

\* set_position_multiple(), lines 279 and 281: one serial.write
SpmWrite ==
    /\ pc = "spm"
    /\ outq # <<>>
    /\ wire' = Append(wire, Head(outq))
    /\ outq' = Tail(outq)
    /\ UNCHANGED <<animating, current_position, top, pc, anim, i, step, mt_i,
                   args, polls, polled, flushed, slept, entry_position>>
    /\ UNCHANGED linkvars

\* set_position_multiple() returns, and with it a move_to() that called it;
\* inside animate the sleep of line 184 follows
SpmReturn ==
    /\ pc = "spm"
    /\ outq = <<>>
    /\ IF top \in {"set_position_multiple", "move_to"}
       THEN pc' = "returned" /\ slept' = slept
       ELSE pc' = "poll_write" /\ slept' = slept + SettleSleepMs
    /\ UNCHANGED <<animating, current_position, top, anim, i, step, mt_i, args,
                   outq, wire, polls, polled, flushed, entry_position>>
    /\ UNCHANGED linkvars

\* animate(), line 189 -> get_position(index), line 294: the query is written,
\* on every pass of the loop; wire records it for the first MaxPolls + 1 passes
PollWrite ==
    /\ pc = "poll_write"
    /\ wire' = IF polls <= MaxPolls
               THEN Append(wire,
                           get_position_cmd(poll_index(current_position, step[1])))
               ELSE wire
    /\ pc' = "poll_read"
    /\ UNCHANGED <<animating, current_position, top, anim, i, step, mt_i, args,
                   outq, polls, polled, flushed, slept, entry_position>>
    /\ UNCHANGED linkvars

\* The positions (in quarter microseconds) the device may report for a servo
\* commanded to max_value: at the target, and on either side of the tolerance
ReplyOffsets == {-21, -20, 0, 20, 21}

\* The bytes a read of the poll may yield: none (the read timed out) or the
\* low, respectively high, byte of a position near max_value
Byte1Replies(max_value) ==
    {<<>>} \cup { <<(4 * (max_value + d)) % 256>> : d \in ReplyOffsets }

Byte2Replies(max_value) ==
    {<<>>} \cup { <<(4 * (max_value + d)) \div 256>> : d \in ReplyOffsets }

\* the settle loop with a limit of MaxPolls + 1 passes
PollRead_GivesUp ==
    /\ pc = "poll_read"
    /\ \E byte1 \in Byte1Replies(poll_target(current_position, step[1])),
          byte2 \in Byte2Replies(poll_target(current_position, step[1])) :
            /\ polled' = get_position_result(byte1, byte2)
            /\ flushed' = get_position_flushes(byte1, byte2)
    /\ polls' = IF polls < MaxPolls + 1 THEN polls + 1 ELSE polls
    /\ IF Settled(polled', poll_target(current_position, step[1]))
          \/ polls >= MaxPolls
       THEN pc' = "assign"
       ELSE pc' = "poll_write"
    /\ UNCHANGED <<animating, current_position, top, anim, i, step, mt_i, args,
                   outq, wire, slept, entry_position>>
    /\ UNCHANGED linkvars

\* get_position(), lines 295-302, and the loop test of lines 188-191: the two
\* reads (each may time out), the value returned, the test; a value outside
\* the tolerance leads back to the query, with no limit on the passes
PollRead ==
    /\ pc = "poll_read"
    /\ \E byte1 \in Byte1Replies(poll_target(current_position, step[1])),
          byte2 \in Byte2Replies(poll_target(current_position, step[1])) :
            /\ polled' = get_position_result(byte1, byte2)
            /\ flushed' = get_position_flushes(byte1, byte2)
    /\ polls' = IF polls < MaxPolls + 1 THEN polls + 1 ELSE polls
    /\ IF Settled(polled', poll_target(current_position, step[1]))
       THEN pc' = "assign"
       ELSE pc' = "poll_write"
    /\ UNCHANGED <<animating, current_position, top, anim, i, step, mt_i, args,
                   outq, wire, slept, entry_position>>
    /\ UNCHANGED linkvars

\* animate(), line 193, and the return to the caller
AnimateAssign ==
    /\ pc = "assign"
    /\ current_position' = step[1]
    /\ IF top = "animation"
       THEN pc' = "anim_loop" /\ i' = i + 1
       ELSE pc' = "returned" /\ i' = i
    /\ UNCHANGED <<animating, top, anim, step, mt_i, args, outq, wire, polls,
                   polled, flushed, slept, entry_position>>
    /\ UNCHANGED linkvars

\* self.serial.write or self.serial.read raises: no method catches it, the
\* exception leaves every frame and reaches the caller
TransportError ==
    /\ \/ pc \in {"mt_speed", "mt_accel", "poll_write", "poll_read"}
       \/ pc = "spm" /\ outq # <<>>
       \/ pc \in {"gp_write", "gsm_write", "gsm_read",
                  "ss_write", "sa_write", "gh_write", "tgp_write"}
    /\ pc' = "raised"
    /\ UNCHANGED <<animating, current_position, top, anim, i, step, mt_i, args,
                   outq, wire, polls, polled, flushed, slept, entry_position>>
    /\ UNCHANGED linkvars

\* the caller has its result (or the exception); the locals are gone and the
\* record of the transport starts afresh
Return ==
    /\ pc \in {"returned", "raised"}
    /\ pc' = "idle"
    /\ top' = "none"
    /\ anim' = ""
    /\ i' = 0
    /\ step' = NoStep
    /\ mt_i' = 0
    /\ args' = NoArgs
    /\ outq' = <<>>
    /\ wire' = <<>>
    /\ polls' = 0
    /\ polled' = <<>>
    /\ flushed' = FALSE
    /\ slept' = 0
    /\ entry_position' = current_position
    /\ call' = <<>>
    /\ ret' = <<>>
    /\ rx' = <<>>
    /\ moving' = {}
    /\ UNCHANGED <<animating, current_position>>

\* prox_sensor_listener(space, distance), lines 136-139: prints its arguments
CallProxSensorListener ==
    /\ pc = "idle"
    /\ top' = "prox_sensor_listener"
    /\ entry_position' = current_position
    /\ pc' = "returned"
    /\ UNCHANGED <<animating, current_position, anim, i, step, mt_i, args,
                   outq, wire, polls, polled, flushed, slept>>
    /\ UNCHANGED linkvars

Next ==
    \/ CallProxSensorListener
    \/ \E name \in AnimationNames : CallAnimation(name)
    \/ AnimationLoop
    \/ \E name \in PoseNames, times \in AnimateTimes : CallAnimate(name, times)
    \/ \E ms \in PauseTimes : CallAnimate("pause", ms)
    \/ AnimateEnter
    \/ MoveToSetSpeed
    \/ MoveToSetAccel
    \/ MoveToTargets
    \/ SpmWrite
    \/ SpmReturn
    \/ PollWrite
    \/ PollRead
    \/ AnimateAssign
    \/ TransportError
    \/ Return

Spec == Init /\ [][Next]_vars

----------------------------------------------------------------------------
(* The link called directly: set_position_multiple on bounded inputs. *)

\* pulse width lists: all 1500 except at most one entry, which takes a value
\* at or next to a limit of the valid range
EdgePulseWidths == {735, 736, 2272, 2273}

\* and the lists of one pulse width, for every valid pulse width
PulseWidthLists ==
    UNION { { [k \in 1..n |-> 1500] } \cup
            { [k \in 1..n |-> IF k = at THEN v ELSE 1500] :
                    at \in 1..n, v \in EdgePulseWidths } : n \in 0..MaxTargets }
    \cup { <<p>> : p \in MinPulseWidth..MaxPulseWidth }

CallSetPositionMultiple(first_servo, pulse_widths) ==
    /\ pc = "idle"
    /\ top' = "set_position_multiple"
    /\ entry_position' = current_position
    /\ args' = [first_servo |-> first_servo, pulse_widths |-> pulse_widths]
    /\ outq' = set_position_multiple_writes(first_servo, pulse_widths)
    /\ pc' = "spm"
    /\ UNCHANGED <<animating, current_position, anim, i, step, mt_i, wire,
                   polls, polled, flushed, slept>>
    /\ UNCHANGED linkvars

\* the logical channels
Servos == 0..(NumServos - 1)

\* move_to(position, speed_accel) called directly; speed_accels is its
\* speed_accel argument
CallMoveTo(position, speed_accels) ==
    /\ pc = "idle"
    /\ top' = "move_to"
    /\ entry_position' = current_position
    /\ call' = <<position, speed_accels>>
    /\ mt_i' = 0
    /\ pc' = "mt_speed"
    /\ UNCHANGED <<animating, current_position, anim, i, step, args,
                   outq, wire, polls, polled, flushed, slept, ret, rx, moving>>

\* the speed and acceleration lists handed to a direct move_to
MoveToSpeedAccels ==
    { [k \in 1..NumServos |-> <<7, 9>>],
      [k \in 1..NumServos |-> <<k, 256 + k>>] }

\* go_home() called directly
CallGoHome ==
    /\ pc = "idle"
    /\ top' = "go_home"
    /\ entry_position' = current_position
    /\ pc' = "gh_write"
    /\ UNCHANGED <<animating, current_position, anim, i, step, mt_i, args,
                   outq, wire, polls, polled, flushed, slept>>
    /\ UNCHANGED linkvars

\* go_home(), line 215: cmd
go_home_cmd == <<SyncByte, PrimaryDevice, OpGoHome>>

\* go_home(), line 216
GoHomeWrite ==
    /\ pc = "gh_write"
    /\ wire' = Append(wire, go_home_cmd)
    /\ pc' = "returned"
    /\ UNCHANGED <<animating, current_position, top, anim, i, step, mt_i, args,
                   outq, polls, polled, flushed, slept, entry_position>>
    /\ UNCHANGED linkvars

\* get_position(servo) called directly
CallGetPosition(servo) ==
    /\ pc = "idle"
    /\ top' = "get_position"
    /\ entry_position' = current_position
    /\ call' = <<servo>>
    /\ pc' = "gp_write"
    /\ UNCHANGED <<animating, current_position, anim, i, step, mt_i, args,
                   outq, wire, polls, polled, flushed, slept, ret, rx, moving>>

\* get_position(), lines 287-294: the query is written
GetPositionWrite ==
    /\ pc = "gp_write"
    /\ wire' = Append(wire, get_position_cmd(call[1]))
    /\ pc' = "gp_read"
    /\ UNCHANGED <<animating, current_position, top, anim, i, step, mt_i, args,
                   outq, polls, polled, flushed, slept, entry_position,
                   call, ret, rx, moving>>

\* what one serial.read() may return: nothing (timeout) or one byte
SampleBytes == {0, 1, 3, 4, 112, 255}
ReadReplies == {<<>>} \cup { <<b>> : b \in SampleBytes }

\* get_position(), lines 295-302: the two reads, the flush, the return
GetPositionRead ==
    /\ pc = "gp_read"
    /\ \E byte1 \in ReadReplies, byte2 \in ReadReplies :
            /\ rx' = <<byte1, byte2>>
            /\ ret' = get_position_result(byte1, byte2)
            /\ flushed' = get_position_flushes(byte1, byte2)
    /\ pc' = "returned"
    /\ UNCHANGED <<animating, current_position, top, anim, i, step, mt_i, args,
                   outq, wire, polls, polled, slept, entry_position,
                   call, moving>>

\* get_position(), lines 295-299: what the reads had returned when the
\* transport raised: in the first read, in the second read, or in
\* flushInput() after a read that timed out
ReadsBeforeError(replies) ==
    {<<>>} \cup { <<byte1>> : byte1 \in replies }
           \cup { reads \in replies \X replies :
                        get_position_flushes(reads[1], reads[2]) }

\* get_position(), lines 295-299: serial.read() or serial.flushInput()
\* raises and the exception leaves get_position
GetPositionReadError ==
    /\ pc = "gp_read"
    /\ \E reads \in ReadsBeforeError(ReadReplies) : rx' = reads
    /\ pc' = "raised"
    /\ UNCHANGED <<animating, current_position, top, anim, i, step, mt_i, args,
                   outq, wire, polls, polled, flushed, slept, entry_position,
                   call, ret, moving>>

\* test_get_position(), lines 355-364: the servo queried and the number of
\* queries
TestServo == 13
TestQueries == 100

\* what one serial.read() of test_get_position's queries may return
TestReadReplies == {<<>>, <<4>>, <<112>>}

\* test_get_position() called directly; call holds the servo it queries and
\* its timeout_count
CallTestGetPosition ==
    /\ pc = "idle"
    /\ top' = "test_get_position"
    /\ entry_position' = current_position
    /\ call' = <<TestServo, 0>>
    /\ i' = 0
    /\ pc' = IF 0 < TestQueries THEN "tgp_write" ELSE "returned"
    /\ UNCHANGED <<animating, current_position, anim, step, mt_i, args,
                   outq, wire, polls, polled, flushed, slept, ret, rx, moving>>

\* test_get_position(), line 359 -> get_position(13), line 294
TestGetPositionWrite ==
    /\ pc = "tgp_write"
    /\ wire' = Append(wire, get_position_cmd(call[1]))
    /\ pc' = "tgp_read"
    /\ UNCHANGED <<animating, current_position, top, anim, i, step, mt_i, args,
                   outq, polls, polled, flushed, slept, entry_position,
                   call, ret, rx, moving>>

\* get_position(), lines 295-302, and test_get_position(), lines 360-363:
\* the two reads, the flush, the count of the None results, i += 1
TestGetPositionRead ==
    /\ pc = "tgp_read"
    /\ \E byte1 \in TestReadReplies, byte2 \in TestReadReplies :
            /\ rx' = <<byte1, byte2>>
            /\ flushed' = get_position_flushes(byte1, byte2)
            /\ call' = << call[1],
                          IF get_position_result(byte1, byte2) = <<>>
                          THEN call[2] + 1 ELSE call[2] >>
    /\ i' = i + 1
    /\ pc' = IF i + 1 < TestQueries THEN "tgp_write" ELSE "returned"
    /\ UNCHANGED <<animating, current_position, top, anim, step, mt_i, args,
                   outq, wire, polls, polled, slept, entry_position,
                   ret, moving>>

\* test_get_position() -> get_position(), lines 295-299: serial.read() or
\* serial.flushInput() raises and the exception leaves test_get_position
TestGetPositionReadError ==
    /\ pc = "tgp_read"
    /\ \E reads \in ReadsBeforeError(TestReadReplies) : rx' = reads
    /\ pc' = "raised"
    /\ UNCHANGED <<animating, current_position, top, anim, i, step, mt_i, args,
                   outq, wire, polls, polled, flushed, slept, entry_position,
                   call, ret, moving>>

\* get_servos_moving() called directly, while the devices in m have a
\* channel moving
CallGetServosMoving(m) ==
    /\ pc = "idle"
    /\ top' = "get_servos_moving"
    /\ entry_position' = current_position
    /\ moving' = m
    /\ pc' = "gsm_write"
    /\ UNCHANGED <<animating, current_position, anim, i, step, mt_i, args,
                   outq, wire, polls, polled, flushed, slept, call, ret, rx>>

\* get_servos_moving(), lines 307-308: cmd1
get_servos_moving_cmd == <<SyncByte, PrimaryDevice, OpGetMovingState>>

GetServosMovingWrite ==
    /\ pc = "gsm_write"
    /\ wire' = Append(wire, get_servos_moving_cmd)
    /\ pc' = "gsm_read"
    /\ UNCHANGED <<animating, current_position, top, anim, i, step, mt_i, args,
                   outq, polls, polled, flushed, slept, entry_position,
                   call, ret, rx, moving>>

\* get_servos_moving(), lines 310-319: the value returned for the byte read
get_servos_moving_result(byte) == Len(byte) > 0 /\ byte[1] = 1

\* get_servos_moving(), lines 309-319: the read answers for the device the
\* query was addressed to (1 when it has a channel moving, else 0), or times
\* out
GetServosMovingRead ==
    /\ pc = "gsm_read"
    /\ \E byte \in { <<>>, << IF wire[Len(wire)][2] \in moving
                              THEN 1 ELSE 0 >> } :
            /\ rx' = <<byte>>
            /\ ret' = << get_servos_moving_result(byte) >>
    /\ pc' = "returned"
    /\ UNCHANGED <<animating, current_position, top, anim, i, step, mt_i, args,
                   outq, wire, polls, polled, flushed, slept, entry_position,
                   call, moving>>

\* set_speed(servo, speed) called directly
CallSetSpeed(servo, speed) ==
    /\ pc = "idle"
    /\ top' = "set_speed"
    /\ entry_position' = current_position
    /\ call' = <<servo, speed>>
    /\ pc' = "ss_write"
    /\ UNCHANGED <<animating, current_position, anim, i, step, mt_i, args,
                   outq, wire, polls, polled, flushed, slept, ret, rx, moving>>

\* set_speed(), line 334
SetSpeedWrite ==
    /\ pc = "ss_write"
    /\ wire' = Append(wire, set_speed_cmd(call[1], call[2]))
    /\ pc' = "returned"
    /\ UNCHANGED <<animating, current_position, top, anim, i, step, mt_i, args,
                   outq, polls, polled, flushed, slept, entry_position,
                   call, ret, rx, moving>>

\* set_accel(servo, accel) called directly
CallSetAccel(servo, accel) ==
    /\ pc = "idle"
    /\ top' = "set_accel"
    /\ entry_position' = current_position
    /\ call' = <<servo, accel>>
    /\ pc' = "sa_write"
    /\ UNCHANGED <<animating, current_position, anim, i, step, mt_i, args,
                   outq, wire, polls, polled, flushed, slept, ret, rx, moving>>

\* set_accel(), line 350
SetAccelWrite ==
    /\ pc = "sa_write"
    /\ wire' = Append(wire, set_accel_cmd(call[1], call[2]))
    /\ pc' = "returned"
    /\ UNCHANGED <<animating, current_position, top, anim, i, step, mt_i, args,
                   outq, polls, polled, flushed, slept, entry_position,
                   call, ret, rx, moving>>

\* speeds and accelerations handed to the direct calls
SpeedInputs == {0, 1, 255, 256, 65535, 65536}

\* time_to_speed_accel(anim_time, distance, 0) called directly
CallTimeToSpeedAccel(anim_time, distance) ==
    /\ pc = "idle"
    /\ top' = "time_to_speed_accel"
    /\ entry_position' = current_position
    /\ call' = <<anim_time, distance>>
    /\ ret' = time_to_speed_accel(anim_time, distance)
    /\ pc' = "returned"
    /\ UNCHANGED <<animating, current_position, anim, i, step, mt_i, args,
                   outq, wire, polls, polled, flushed, slept, rx, moving>>

AnimTimeInputs == (1..MaxAnimTime) \cup {100, 160, 600, 750, 1000, 1500}

\* a route taken from either set
FindCommonRouteResults_Union(routes1, routes2) ==
    IF Cardinality(routes1 \cup routes2) > 0
    THEN routes1 \cup routes2
    ELSE {"park"}

\* find_common_route(), lines 421-426: the values the call may return;
\* common_routes.pop() removes and returns an arbitrary member
FindCommonRouteResults(routes1, routes2) ==
    IF Cardinality(routes1 \cap routes2) > 0
    THEN routes1 \cap routes2
    ELSE {"park"}

\* find_common_route(): routes1 and routes2 after the call; line 421 builds
\* a new set and line 424 pops from that one
find_common_route_leaves(routes1, routes2) == <<routes1, routes2>>

\* find_common_route(routes1, routes2) called directly
CallFindCommonRoute(routes1, routes2) ==
    /\ pc = "idle"
    /\ top' = "find_common_route"
    /\ entry_position' = current_position
    /\ call' = <<routes1, routes2>>
    /\ \E r \in FindCommonRouteResults(routes1, routes2) :
            ret' = <<r>> \o find_common_route_leaves(routes1, routes2)
    /\ pc' = "returned"
    /\ UNCHANGED <<animating, current_position, anim, i, step, mt_i, args,
                   outq, wire, polls, polled, flushed, slept, rx, moving>>

RouteTags == {"park", "extend", "extend_half"}

NextLink ==
    \/ /\ pc = "idle"
       /\ \E first_servo \in 0..MaxFirstServo, pulse_widths \in PulseWidthLists :
            CallSetPositionMultiple(first_servo, pulse_widths)
    \/ SpmWrite
    \/ SpmReturn
    \/ \E name \in PoseNames, speed_accels \in MoveToSpeedAccels :
            CallMoveTo(positions(name), speed_accels)
    \/ MoveToSetSpeed
    \/ MoveToSetAccel
    \/ MoveToTargets
    \/ CallGoHome
    \/ GoHomeWrite
    \/ \E servo \in Servos : CallGetPosition(servo)
    \/ GetPositionWrite
    \/ GetPositionRead
    \/ GetPositionReadError
    \/ CallTestGetPosition
    \/ TestGetPositionWrite
    \/ TestGetPositionRead
    \/ TestGetPositionReadError
    \/ \E m \in SUBSET {PrimaryDevice, SecondaryDevice} : CallGetServosMoving(m)
    \/ GetServosMovingWrite
    \/ GetServosMovingRead
    \/ \E servo \in Servos, speed \in SpeedInputs : CallSetSpeed(servo, speed)
    \/ SetSpeedWrite
    \/ \E servo \in Servos, accel \in SpeedInputs : CallSetAccel(servo, accel)
    \/ SetAccelWrite
    \/ /\ pc = "idle"
       /\ \E anim_time \in AnimTimeInputs, distance \in 0..MaxDistance :
            CallTimeToSpeedAccel(anim_time, distance)
    \/ \E routes1 \in SUBSET RouteTags, routes2 \in SUBSET RouteTags :
            CallFindCommonRoute(routes1, routes2)
    \/ TransportError
    \/ Return

SpecLink == Init /\ [][NextLink]_vars

----------------------------------------------------------------------------
(* Reading the transport record. *)

CmdDevice(cmd) == cmd[2]
CmdOp(cmd) == cmd[3]

IsSetMultiple(cmd) == CmdOp(cmd) = OpSetMultiple

\* the logical channel (0..23) a per-channel command or a query addresses
CmdServo(cmd) == (CmdDevice(cmd) - PrimaryDevice) * ServosPerDevice + cmd[4]

\* of a set-multiple-targets command: its target count, its first logical
\* channel, the logical channels it covers
TargetCount(cmd) == cmd[4]
TargetStart(cmd) == (CmdDevice(cmd) - PrimaryDevice) * ServosPerDevice + cmd[5]
TargetChannels(cmd) ==
    { TargetStart(cmd) + j : j \in 0..(TargetCount(cmd) - 1) }

SetMultipleCmds(w) == SelectSeq(w, IsSetMultiple)

PoseStep == step[1] \in PoseNames

----------------------------------------------------------------------------
(* C1..C10 *)

\* C1: animation(name) called while animating is True returns at once, for
\* every script name: the call goes straight to its return, nothing is
\* written to the transport, current_position and animating keep their values.
C1_AnimationGuard ==
    /\ [][ (pc = "idle" /\ animating /\ top' = "animation")
            => /\ pc' = "returned"
               /\ wire' = <<>>
               /\ current_position' = current_position
               /\ animating' = animating ]_vars
    /\ [](top = "animation" /\ pc = "returned" /\ animating
            => wire = <<>> /\ current_position = entry_position)

\* an animation() call made while animating was True has returned
C1_Witness ==
    top = "animation" /\ pc = "returned" /\ animating /\ wire = <<>>

\* the places of a running animate() call after its entry
AnimateBody ==
    {"mt_speed", "mt_accel", "mt_targets", "spm", "poll_write", "poll_read",
     "assign"}

safe_routes(name) == {}

\* C3 as stated: when the settle wait of a pose step has ended, the step has
\* issued exactly two synchronized moves: first to the pose the route planner
\* returns for (current pose tags, target pose tags), then to the target pose.
C3_WaypointThenTarget ==
    (PoseStep /\ pc = "assign")
        => \E waypoint \in FindCommonRouteResults(safe_routes(current_position),
                                                    safe_routes(step[1])) :
               SetMultipleCmds(wire)
                 = << spm_cmd2(0, pulse_widths_of(positions(waypoint))),
                      spm_cmd(0, pulse_widths_of(positions(waypoint))),
                      spm_cmd2(0, pulse_widths_of(positions(step[1]))),
                      spm_cmd(0, pulse_widths_of(positions(step[1]))) >>

\* the range of a direct set_position_multiple call
ArgFirst == args.first_servo
ArgCount == Len(args.pulse_widths)
ArgRange == ArgFirst .. (ArgFirst + ArgCount - 1)
ArgsInRange == ArgFirst + ArgCount <= NumServos
ArgsValid ==
    \A k \in 1..ArgCount :
        args.pulse_widths[k] \in MinPulseWidth..MaxPulseWidth
Straddles == ArgFirst < ServosPerDevice /\ ArgFirst + ArgCount > ServosPerDevice

\* C4 as stated: a valid set_position_multiple call over count >= 1 channels
\* with first_servo + count <= 24 writes one command when the range lies in
\* one device (a range ending at channel 11 included) and two when it
\* straddles channel 12; the written commands cover each channel of the range
\* exactly once and none carries zero targets.
C4_CommandsPartitionRange ==
    (top = "set_position_multiple" /\ pc = "returned"
        /\ ArgCount >= 1 /\ ArgsInRange /\ ArgsValid)
        => /\ Len(wire) = IF Straddles THEN 2 ELSE 1
           /\ \A k \in 1..Len(wire) :
                /\ TargetCount(wire[k]) >= 1
                /\ TargetChannels(wire[k]) \subseteq ArgRange
           /\ \A ch \in ArgRange :
                Cardinality({k \in 1..Len(wire) : ch \in TargetChannels(wire[k])}) = 1

\* C5: set_position_multiple writes nothing when first_servo + count > 24 or
\* when any pulse width of the input, in either part of a straddling range, is
\* outside [736, 2272].
C5_InvalidWritesNothing ==
    (top = "set_position_multiple" /\ (~ArgsInRange \/ ~ArgsValid))
        => wire = <<>>

\* a straddling call whose only invalid pulse width is in the secondary part
\* has returned
C5_Witness ==
    /\ top = "set_position_multiple" /\ pc = "returned"
    /\ ArgsInRange /\ Straddles
    /\ \A k \in 1..(ServosPerDevice - ArgFirst) :
            args.pulse_widths[k] \in MinPulseWidth..MaxPulseWidth
    /\ \E k \in (ServosPerDevice - ArgFirst + 1)..ArgCount :
            args.pulse_widths[k] \notin MinPulseWidth..MaxPulseWidth
    /\ wire = <<>>

\* C6: in a synchronized move the speed and the acceleration of all 24
\* channels, in channel order, are written before any set-multiple-targets
\* command; the targets then go out by one set_position_multiple call that
\* starts at channel 0 and carries the 24 pulse widths of the pose.
C6_SpeedAccelBeforeTargets ==
    /\ \A k \in 1..Len(wire) :
          (top # "set_position_multiple" /\ IsSetMultiple(wire[k]))
            => /\ k > 2 * NumServos
               /\ \A ch \in 0..(NumServos - 1) :
                    /\ CmdOp(wire[2 * ch + 1]) = OpSetSpeed
                    /\ CmdServo(wire[2 * ch + 1]) = ch
                    /\ CmdOp(wire[2 * ch + 2]) = OpSetAccel
                    /\ CmdServo(wire[2 * ch + 2]) = ch
    /\ (top # "set_position_multiple" /\ pc = "spm")
            => /\ args.first_servo = 0
               /\ args.pulse_widths = pulse_widths_of(positions(step[1]))
    /\ (PoseStep /\ pc \in {"poll_write", "poll_read", "assign"})
            => /\ Len(SetMultipleCmds(wire)) = 2
               /\ UNION { TargetChannels(wire[k]) :
                            k \in (2 * NumServos + 1)..(2 * NumServos + 2) }
                     = 0..(NumServos - 1)

\* a synchronized move has been written in full and the settle wait begins
C6_Witness ==
    PoseStep /\ pc = "poll_write" /\ polls = 0 /\ Len(wire) = 2 * NumServos + 2

\* C7: when set_position_multiple splits a range that straddles the device
\* boundary, the command to the secondary device (0x0D) is written before the
\* command to the primary device (0x0C).
C7_SecondaryFirst ==
    (top = "set_position_multiple" /\ Straddles)
        => \A k \in 1..Len(wire) :
              CmdDevice(wire[k]) = PrimaryDevice
                => \E j \in 1..(k - 1) : CmdDevice(wire[j]) = SecondaryDevice

\* a straddling call has written both of its commands
C7_Witness ==
    /\ top = "set_position_multiple" /\ pc = "returned"
    /\ Straddles /\ Len(wire) = 2

\* the query a settle poll has just written
LastQuery == wire[Len(wire)]

\* C8 as stated: the channel the settle poll queries has the largest
\* displacement |current - target| of all 24 channels, and the reported
\* position is compared with the target pose's pulse width of that channel.
C8_PollsLargestDisplacement ==
    pc = "poll_read"
        => LET d == difference_final(current_position, step[1])
               ch == CmdServo(LastQuery)
           IN  /\ \A c \in 0..(NumServos - 1) : LegValue(d, c) <= LegValue(d, ch)
               /\ poll_target(current_position, step[1])
                    = LegValue(positions(step[1]), ch)

\* the position queries among the commands w
IsGetPosition(cmd) == CmdOp(cmd) = OpGetPosition

PositionQueries(w) == SelectSeq(w, IsGetPosition)

\* C9: the settle loop has no limit on its passes. It ends only on a poll that
\* yields None or a position within 20 of the target of the polled channel,
\* and it ends on the first such poll; a poll that yields a position further
\* away returns to the query, however many passes came before (the counted
\* ones and every later one alike), and leaves current_position alone; the
\* query is then written again, each counted pass putting one more query of
\* the same channel on the wire; current_position changes nowhere but after
\* the loop.
C9_SettleLoopUnbounded ==
    /\ [][ /\ ((pc = "poll_read" /\ pc' # "raised")
               => LET max_value == LegValue(positions(step[1]),
                                            CmdServo(LastQuery))
                  IN  IF polled' = <<>> \/ Abs(polled'[1] - max_value) <= 20
                      THEN pc' = "assign"
                      ELSE /\ pc' = "poll_write"
                           /\ polls' = Min2(polls + 1, MaxPolls + 1)
                           /\ UNCHANGED <<current_position, animating, wire>>)
           /\ ((pc = "poll_write" /\ pc' # "raised")
               => /\ pc' = "poll_read"
                  /\ (polls <= MaxPolls => wire' = Append(wire, LastQuery'))
                  /\ (polls >= 1 => LastQuery' = LastQuery))
           /\ (pc' = "assign" => pc = "poll_read")
           /\ (current_position' # current_position => pc = "assign") ]_vars
    /\ []((PoseStep /\ pc = "poll_write" /\ top \in {"animation", "animate"})
            => /\ Len(PositionQueries(wire)) = polls
               /\ (polls >= 1
                    => ~Settled(polled, poll_target(current_position, step[1]))))
    /\ []((PoseStep /\ pc = "poll_read")
            => Len(PositionQueries(wire)) = Min2(polls + 1, MaxPolls + 1))

\* every counted pass of the loop has reported a position outside the
\* tolerance, each after a query of its own, and the loop is about to query
\* once more
C9_Witness ==
    /\ pc = "poll_write" /\ polls = MaxPolls + 1 /\ polled # <<>>
    /\ Abs(polled[1] - poll_target(current_position, step[1])) > SettleTolerance
    /\ Len(PositionQueries(wire)) = MaxPolls + 1
    /\ current_position = entry_position

\* the pose of the last pose step among the first n steps of a script
LastPose(name, n, default) ==
    LET done == {k \in 1..n : animations(name)[k][1] # "pause"}
    IN  IF done = {} THEN default
        ELSE animations(name)[CHOOSE k \in done : \A m \in done : m <= k][1]

\* what current_position was set to by the last step that ran to its end
LastCompleted ==
    IF top = "animation" THEN LastPose(anim, i, entry_position)
    ELSE entry_position

\* C10: a transport error during a pose step reaches the caller of animate or
\* animation: the step that raised changes nothing else, the call does
\* nothing further, and current_position is the pose of the last step that
\* ran to its end (the value at the call when none did); current_position is
\* assigned only after the settle loop of a step.
C10_ErrorPropagates ==
    /\ [](pc = "raised" /\ top \in {"animation", "animate"}
            => current_position = LastCompleted)
    /\ [][ /\ (pc' = "raised" /\ pc # "raised")
                => UNCHANGED <<animating, current_position, wire, i, step>>
           /\ (pc = "raised" => pc' = "idle")
           /\ (current_position' # current_position
                => pc = "assign" /\ polls >= 1) ]_vars

\* a transport error ended an animation after at least one completed step
C10_Witness ==
    /\ pc = "raised" /\ top = "animation" /\ i >= 1
    /\ current_position # entry_position

----------------------------------------------------------------------------
(* C11..C20 *)

\* C11: animation(name) started with animating False runs the steps of the
\* script in script order, one at a time: animate is entered only from the
\* loop, with step number i + 1, and i advances by one only when that step
\* has ended (its settle loop is over, or its pause has slept).  The call
\* returns normally only from the loop test with every step done; animating
\* is then False and current_position is the pose of the last pose step (its
\* value at the call when the script has none).  The empty script "dance"
\* writes nothing and leaves current_position alone.
C11_ScriptInOrder ==
    /\ [][ top = "animation" =>
            /\ (pc' = "animate"
                  => pc = "anim_loop" /\ step' = animations(anim)[i + 1])
            /\ (i' # i /\ top' = "animation"
                  => /\ i' = i + 1
                     /\ pc' = "anim_loop"
                     /\ \/ pc = "assign"
                        \/ pc = "animate" /\ step[1] = "pause")
            /\ (pc = "anim_loop" /\ pc' = "returned"
                  => /\ i = Len(animations(anim))
                     /\ ~animating'
                     /\ current_position'
                          = LastPose(anim, Len(animations(anim)), entry_position)) ]_vars
    /\ [](top = "animation" /\ pc = "returned" /\ anim = "dance" /\ ~animating
            => wire = <<>> /\ current_position = entry_position)

\* the three steps of "knife" have run and the call has returned
C11_Witness ==
    /\ top = "animation" /\ pc = "returned" /\ ~animating
    /\ anim = "knife" /\ i = 3
    /\ current_position = "park" /\ entry_position # "park"

\* C15 as stated: no set-speed or set-acceleration command written by an
\* animate call between two predefined poses carries the value 0 (low byte +
\* 256 * high byte), whatever the durations t > 0, t = 1 included.
C15_NoZeroOnTheWire ==
    top \in {"animation", "animate"}
        => \A k \in 1..Len(wire) :
              CmdOp(wire[k]) \in {OpSetSpeed, OpSetAccel}
                => wire[k][5] + 256 * wire[k][6] # 0

\* C16 as stated: a pause step of durationMs sleeps durationMs + 100
\* milliseconds, writes nothing and leaves current_position alone.
C16_PauseSleepsMsPlus100 ==
    (step[1] = "pause" /\ pc # "animate")
        => /\ slept = step[2][1] + 100
           /\ wire = <<>>
           /\ current_position = LastCompleted

\* C20 as stated: animating is True only while an animation() call is
\* executing; once the call has ended, by a return or by a transport error
\* leaving it, and whenever no animation() call runs, animating is False.
C20_AnimatingOnlyDuringAnimation ==
    (top # "animation" \/ pc \in {"idle", "returned", "raised"})
        => ~animating

\* C12: get_position(channel) writes exactly one position query; when fewer
\* than two response bytes arrive (none, only the first, or only the second)
\* it flushes the pending input and returns None, and it raises only where
\* the transport itself raised (a write, a read or the flush), never with
\* both bytes in hand; when both bytes arrive it returns
\* (byte1 + 256 * byte2) / 4 and does not flush.
C12_GetPositionContract ==
    /\ (top = "get_position" /\ pc = "returned") =>
            /\ wire = << <<SyncByte, DeviceOf(call[1]), OpGetPosition,
                           ChannelOf(call[1])>> >>
            /\ (Len(rx[1]) < 1 \/ Len(rx[2]) < 1) => (ret = <<>> /\ flushed)
            /\ (Len(rx[1]) = 1 /\ Len(rx[2]) = 1) =>
                    /\ ret = << (rx[1][1] + 256 * rx[2][1]) \div 4 >>
                    /\ ~flushed
    /\ (top = "get_position" /\ pc = "raised") =>
            ~(Len(rx) = 2 /\ Len(rx[1]) = 1 /\ Len(rx[2]) = 1)

C12_Witness ==
    /\ top = "get_position" /\ pc = "returned"
    /\ rx = << <<112>>, <<>> >>
    /\ ret = <<>>
    /\ flushed

\* C13: when the device queried answers, get_servos_moving returns true if
\* and only if at least one of the two devices has a channel still moving;
\* in particular it returns true when only the secondary device has.
C13_TrueIffEitherDeviceMoving ==
    (top = "get_servos_moving" /\ pc = "returned" /\ rx[1] # <<>>) =>
        (ret[1] <=> moving # {})

\* C14: time_to_speed_accel(t, d, 0) returns a speed and an acceleration that
\* are both at least 1, for every duration t > 0 and distance d >= 0, and
\* returns exactly (1, 1) when d = 0.
C14_SpeedAccelAtLeastOne ==
    (top = "time_to_speed_accel" /\ pc = "returned") =>
        /\ ret[1] >= 1
        /\ ret[2] >= 1
        /\ call[2] = 0 => ret = <<1, 1>>

C14_Witness ==
    /\ top = "time_to_speed_accel" /\ pc = "returned"
    /\ call = <<1500, 0>>
    /\ ret = <<1, 1>>

\* C17: every command written by set_speed, set_accel, get_position and
\* set_position_multiple starts with the sync byte 0xAA, a device byte and
\* the opcode of the method; called for the logical channel c in 0..23 it is
\* addressed to device 0x0C, local channel c, when c < 12 and to device 0x0D,
\* local channel c - 12, when c >= 12 (the second command of a
\* set_position_multiple that started on the primary device being addressed
\* to device 0x0D, local channel 0); the local channel byte is in 0..11.
C17_FramingAndAddressing ==
    /\ top \in {"set_speed", "set_accel", "get_position"} =>
        \A k \in 1..Len(wire) :
            /\ wire[k][1] = 170
            /\ wire[k][2] = (IF call[1] < 12 THEN 12 ELSE 13)
            /\ wire[k][3] = (CASE top = "set_speed" -> 7
                               [] top = "set_accel" -> 9
                               [] OTHER -> 16)
            /\ wire[k][4] = (IF call[1] < 12 THEN call[1] ELSE call[1] - 12)
            /\ wire[k][4] \in 0..11
    /\ (top = "set_position_multiple" /\ ArgFirst \in 0..23) =>
        /\ \A k \in 1..Len(wire) :
            /\ wire[k][1] = 170
            /\ wire[k][3] = 31
            /\ wire[k][5] \in 0..11
            /\ \/ /\ wire[k][2] = (IF ArgFirst < 12 THEN 12 ELSE 13)
                  /\ wire[k][5] = (IF ArgFirst < 12 THEN ArgFirst
                                                    ELSE ArgFirst - 12)
               \/ /\ ArgFirst < 12
                  /\ wire[k][2] = 13
                  /\ wire[k][5] = 0
        /\ (pc = "returned" /\ wire # <<>>) =>
            /\ wire[Len(wire)][2] = (IF ArgFirst < 12 THEN 12 ELSE 13)
            /\ wire[Len(wire)][5] = (IF ArgFirst < 12 THEN ArgFirst
                                                      ELSE ArgFirst - 12)

C17_Witness ==
    /\ top = "set_accel" /\ pc = "returned"
    /\ call = <<23, 256>>
    /\ wire = << <<170, 13, 9, 11, 0, 1>> >>

\* C18: for every pulse width p in 736..2272 and every channel in 0..23, the
\* two target bytes that set_position_multiple writes for p are both below
\* 128, are (4p) mod 128 and (4p div 128) mod 128, and decode back to p as
\* (low + 128 * high) / 4; no other pulse width of the range has the same
\* two bytes.
C18_TargetBytesRoundTrip ==
    (top = "set_position_multiple" /\ ArgFirst \in 0..23) =>
        \A k \in 1..Len(wire) :
            LET offset == IF ArgFirst < 12 /\ wire[k][2] = 13
                          THEN 12 - ArgFirst ELSE 0
            IN  \A j \in 1..wire[k][4] :
                    LET low == wire[k][4 + 2 * j]
                        high == wire[k][5 + 2 * j]
                        p == args.pulse_widths[offset + j]
                    IN  /\ p \in 736..2272
                        /\ low \in 0..127
                        /\ high \in 0..127
                        /\ low = (4 * p) % 128
                        /\ high = ((4 * p) \div 128) % 128
                        /\ low + 128 * high = 4 * p
                        /\ (low + 128 * high) \div 4 = p
                        /\ (ArgFirst = 0 /\ pc = "returned" /\ ArgCount = 1) =>
                                \A q \in 736..2272 :
                                    TargetBytes(q) = <<low, high>> => q = p

C18_Witness ==
    /\ top = "set_position_multiple" /\ pc = "returned"
    /\ args = [first_servo |-> 23, pulse_widths |-> <<2272>>]
    /\ wire = << <<170, 13, 31, 1, 11, 0, 71>> >>

\* C19: find_common_route(tagsA, tagsB) returns an element of the
\* intersection of tagsA and tagsB when that intersection is not empty and
\* "park" when it is empty, and leaves both sets as they were.
C19_CommonRouteOrPark ==
    (top = "find_common_route" /\ pc = "returned") =>
        /\ call[1] \cap call[2] # {} => ret[1] \in call[1] \cap call[2]
        /\ call[1] \cap call[2] = {} => ret[1] = "park"
        /\ ret[2] = call[1]
        /\ ret[3] = call[2]

C19_Witness ==
    /\ top = "find_common_route" /\ pc = "returned"
    /\ call = << {"extend", "extend_half"}, {"extend_half", "park"} >>
    /\ ret[1] = "extend_half"

====
